---------------------------- MODULE Spec2Model ----------------------------
(***************************************************************************)
(* Model of the conversation agent (app/agents/conversation_agent.py),     *)
(* the tool orchestrator (app/services/tool_orchestrator.py) and the       *)
(* store operations they use (app/db/conversation_db.py).                  *)
(*                                                                         *)
(* Nine specifications share the module:                                   *)
(*   SpecT     the transition decision and the context extraction, as      *)
(*             pure functions applied to bounded inputs;                   *)
(*   SpecSyn   process_search_results, applied to bounded lists;           *)
(*   SpecOrch  the orchestrator: batches of searches behind the semaphore; *)
(*   Spec      process_message calls on one session, overlapping;          *)
(*   SpecRace  the same, with one more call per behaviour;                 *)
(*   SpecSeq   the same calls, each running to completion before the next; *)
(*   SpecPut   sequential calls on a session whose phase the API also      *)
(*             sets;                                                       *)
(*   SpecHist  the stored messages and the history put in the prompt;      *)
(*   SpecLock  the operations of one store instance and its lock.          *)
(***************************************************************************)
EXTENDS Integers, Sequences, FiniteSets, Bags, TLC

(***************************************************************************)
(* Bounds.                                                                 *)
(***************************************************************************)
\* longest message, in vocabulary phrases, given to the pure functions
MaxPhrases == 1

(***************************************************************************)
(* Strings.  A Python str is a sequence of one-character strings, so that  *)
(* `in` (substring search) and lower() are computed, not assumed.          *)
(***************************************************************************)
Spell ==
   ("beginner" :> <<"b","e","g","i","n","n","e","r">>) @@
   ("new" :> <<"n","e","w">>) @@
   ("start" :> <<"s","t","a","r","t">>) @@
   ("basic" :> <<"b","a","s","i","c">>) @@
   ("advanced" :> <<"a","d","v","a","n","c","e","d">>) @@
   ("expert" :> <<"e","x","p","e","r","t">>) @@
   ("professional" :> <<"p","r","o","f","e","s","s","i","o","n","a","l">>) @@
   ("teach" :> <<"t","e","a","c","h">>) @@
   ("teaching" :> <<"t","e","a","c","h","i","n","g">>) @@
   ("education" :> <<"e","d","u","c","a","t","i","o","n">>) @@
   ("learn" :> <<"l","e","a","r","n">>) @@
   ("learning" :> <<"l","e","a","r","n","i","n","g">>) @@
   ("study" :> <<"s","t","u","d","y">>) @@
   ("understand" :> <<"u","n","d","e","r","s","t","a","n","d">>) @@
   ("high school" :> <<"h","i","g","h"," ","s","c","h","o","o","l">>) @@
   ("college" :> <<"c","o","l","l","e","g","e">>) @@
   ("university" :> <<"u","n","i","v","e","r","s","i","t","y">>) @@
   ("student" :> <<"s","t","u","d","e","n","t">>) @@
   ("students" :> <<"s","t","u","d","e","n","t","s">>) @@
   ("elementary" :> <<"e","l","e","m","e","n","t","a","r","y">>) @@
   ("middle school" :> <<"m","i","d","d","l","e"," ","s","c","h","o","o","l">>) @@
   ("grade" :> <<"g","r","a","d","e">>) @@
   ("jazz" :> <<"j","a","z","z">>) @@
   ("classical" :> <<"c","l","a","s","s","i","c","a","l">>) @@
   ("rock" :> <<"r","o","c","k">>) @@
   ("pop" :> <<"p","o","p">>) @@
   ("hip hop" :> <<"h","i","p"," ","h","o","p">>) @@
   ("blues" :> <<"b","l","u","e","s">>) @@
   ("folk" :> <<"f","o","l","k">>) @@
   ("electronic" :> <<"e","l","e","c","t","r","o","n","i","c">>) @@
   ("country" :> <<"c","o","u","n","t","r","y">>) @@
   ("reggae" :> <<"r","e","g","g","a","e">>) @@
   ("soul" :> <<"s","o","u","l">>) @@
   ("r&b" :> <<"r","&","b">>) @@
   ("metal" :> <<"m","e","t","a","l">>) @@
   ("punk" :> <<"p","u","n","k">>) @@
   ("funk" :> <<"f","u","n","k">>) @@
   ("disco" :> <<"d","i","s","c","o">>) @@
   ("latin" :> <<"l","a","t","i","n">>) @@
   ("world" :> <<"w","o","r","l","d">>) @@
   ("ambient" :> <<"a","m","b","i","e","n","t">>) @@
   ("experimental" :> <<"e","x","p","e","r","i","m","e","n","t","a","l">>) @@
   ("history" :> <<"h","i","s","t","o","r","y">>) @@
   ("tradition" :> <<"t","r","a","d","i","t","i","o","n">>) @@
   ("culture" :> <<"c","u","l","t","u","r","e">>) @@
   ("society" :> <<"s","o","c","i","e","t","y">>) @@
   ("community" :> <<"c","o","m","m","u","n","i","t","y">>) @@
   ("ceremony" :> <<"c","e","r","e","m","o","n","y">>) @@
   ("celebration" :> <<"c","e","l","e","b","r","a","t","i","o","n">>) @@
   ("ritual" :> <<"r","i","t","u","a","l">>) @@
   ("spiritual" :> <<"s","p","i","r","i","t","u","a","l">>) @@
   ("religious" :> <<"r","e","l","i","g","i","o","u","s">>) @@
   ("heritage" :> <<"h","e","r","i","t","a","g","e">>) @@
   ("custom" :> <<"c","u","s","t","o","m">>) @@
   ("practice" :> <<"p","r","a","c","t","i","c","e">>) @@
   ("belief" :> <<"b","e","l","i","e","f">>) @@
   ("rhythm" :> <<"r","h","y","t","h","m">>) @@
   ("melody" :> <<"m","e","l","o","d","y">>) @@
   ("harmony" :> <<"h","a","r","m","o","n","y">>) @@
   ("chord" :> <<"c","h","o","r","d">>) @@
   ("scale" :> <<"s","c","a","l","e">>) @@
   ("key" :> <<"k","e","y">>) @@
   ("tempo" :> <<"t","e","m","p","o">>) @@
   ("beat" :> <<"b","e","a","t">>) @@
   ("syncopation" :> <<"s","y","n","c","o","p","a","t","i","o","n">>) @@
   ("polyrhythm" :> <<"p","o","l","y","r","h","y","t","h","m">>) @@
   ("modulation" :> <<"m","o","d","u","l","a","t","i","o","n">>) @@
   ("transposition" :> <<"t","r","a","n","s","p","o","s","i","t","i","o","n">>) @@
   ("yes" :> <<"y","e","s">>) @@
   ("ready" :> <<"r","e","a","d","y">>) @@
   ("go" :> <<"g","o">>) @@
   ("create" :> <<"c","r","e","a","t","e">>) @@
   ("generate" :> <<"g","e","n","e","r","a","t","e">>) @@
   ("genre" :> <<"g","e","n","r","e">>) @@
   ("music" :> <<"m","u","s","i","c">>) @@
   ("style" :> <<"s","t","y","l","e">>) @@
   ("type" :> <<"t","y","p","e">>) @@
   ("explore" :> <<"e","x","p","l","o","r","e">>) @@
   ("hello" :> <<"h","e","l","l","o">>) @@
   ("thanks" :> <<"t","h","a","n","k","s">>) @@
   ("Jazz" :> <<"J","a","z","z">>) @@
   ("HIP HOP" :> <<"H","I","P"," ","H","O","P">>) @@
   ("Hip-Hop" :> <<"H","i","p","-","H","o","p">>) @@
   ("popular" :> <<"p","o","p","u","l","a","r">>) @@
   ("Explore" :> <<"E","x","p","l","o","r","e">>) @@
   ("rap" :> <<"r","a","p">>) @@
   ("keyboard" :> <<"k","e","y","b","o","a","r","d">>)

\* str.lower() on one character
LowerChar(c) ==
  CASE c = "A" -> "a" [] c = "B" -> "b" [] c = "C" -> "c" [] c = "D" -> "d"
    [] c = "E" -> "e" [] c = "F" -> "f" [] c = "G" -> "g" [] c = "H" -> "h"
    [] c = "I" -> "i" [] c = "J" -> "j" [] c = "K" -> "k" [] c = "L" -> "l"
    [] c = "M" -> "m" [] c = "N" -> "n" [] c = "O" -> "o" [] c = "P" -> "p"
    [] c = "Q" -> "q" [] c = "R" -> "r" [] c = "S" -> "s" [] c = "T" -> "t"
    [] c = "U" -> "u" [] c = "V" -> "v" [] c = "W" -> "w" [] c = "X" -> "x"
    [] c = "Y" -> "y" [] c = "Z" -> "z" [] OTHER -> c

\* str.lower()
Lower(s) == [i \in 1..Len(s) |-> LowerChar(s[i])]

\* `w in s` for two strings
Contains(s, w) ==
  \E i \in 0..(Len(s) - Len(w)) : \A k \in 1..Len(w) : s[i + k] = w[k]

\* `word in message_lower` for a keyword literal
HasWord(message_lower, word) == Contains(message_lower, Spell[word])

\* any(word in message_lower for word in words)
AnyWord(message_lower, words) ==
  \E i \in 1..Len(words) : HasWord(message_lower, words[i])

\* for w in words: if w in message_lower: out.append(w)
MatchedWords(message_lower, words) ==
  SelectSeq(words, LAMBDA w : HasWord(message_lower, w))

\* the text of a message given as a sequence of phrases joined by spaces
RECURSIVE Text(_)
Text(phrases) ==
  IF phrases = <<>> THEN <<>>
  ELSE IF Len(phrases) = 1 THEN Spell[phrases[1]]
  ELSE Spell[phrases[1]] \o <<" ">> \o Text(Tail(phrases))

(***************************************************************************)
(* Phases (class ConversationPhase of the agent module).                   *)
(***************************************************************************)
INITIAL == "initial"
GENRE_EXPLORATION == "genre_exploration"
EDUCATIONAL_CLARIFICATION == "educational_clarification"
CULTURAL_RESEARCH == "cultural_research"
READY_FOR_GENERATION == "ready_for_generation"
ERROR == "error"

ConversationPhase ==
  {INITIAL, GENRE_EXPLORATION, EDUCATIONAL_CLARIFICATION, CULTURAL_RESEARCH,
   READY_FOR_GENERATION, ERROR}

\* position in the order INITIAL < ... < READY_FOR_GENERATION; 0 outside it
PhaseIndex(p) ==
  CASE p = INITIAL -> 1
    [] p = GENRE_EXPLORATION -> 2
    [] p = EDUCATIONAL_CLARIFICATION -> 3
    [] p = CULTURAL_RESEARCH -> 4
    [] p = READY_FOR_GENERATION -> 5
    [] OTHER -> 0

(***************************************************************************)
(* Keyword lists, in the order of the source.                              *)
(***************************************************************************)
BeginnerWords == <<"beginner", "new", "start", "basic">>
AdvancedWords == <<"advanced", "expert", "professional">>
TeachingWords == <<"teach", "teaching", "education", "learn", "learning">>
LearningWords == <<"learn", "learning", "study", "understand">>
HigherEducationWords ==
  <<"high school", "college", "university", "student", "students">>
K12Words == <<"elementary", "middle school", "grade">>

\* genres of _extract_initial_context
InitialGenres ==
  <<"jazz", "classical", "rock", "pop", "hip hop", "blues", "folk",
    "electronic", "country", "reggae", "soul", "r&b", "metal", "punk",
    "funk", "disco", "latin", "world", "ambient", "experimental">>

\* genres of _extract_genre_context
ExplorationGenres ==
  <<"jazz", "rock", "pop", "hip hop", "classical", "blues", "country",
    "electronic", "folk", "reggae", "soul", "r&b", "metal", "punk",
    "funk", "disco", "latin", "world", "ambient", "experimental">>

CulturalElements ==
  <<"history", "tradition", "culture", "society", "community",
    "ceremony", "celebration", "ritual", "spiritual", "religious",
    "heritage", "custom", "practice", "belief", "ceremony">>

TheoryConcepts ==
  <<"rhythm", "melody", "harmony", "chord", "scale", "key", "tempo",
    "beat", "syncopation", "polyrhythm", "modulation", "transposition">>

ConfirmationWords == <<"yes", "ready", "go", "create", "generate">>

\* trigger words of the INITIAL branch of _determine_phase_transition
InitialTransitionWords ==
  <<"genre", "music", "style", "type", "explore", "jazz", "rock", "pop",
    "classical", "blues", "country", "electronic", "folk", "reggae", "soul",
    "r&b", "metal", "punk", "funk", "disco", "latin", "world", "ambient",
    "experimental">>

(***************************************************************************)
(* Extracted context: a dict.  keys is the set of keys present; a field    *)
(* whose key is absent holds its empty value.                              *)
(***************************************************************************)
NoContext ==
  [keys |-> {},
   skill_level |-> "intermediate",
   educational_goals |-> <<>>,
   target_audience |-> "None",
   music_interests |-> <<>>,
   mentioned_genres |-> <<>>,
   cultural_elements |-> <<>>,
   theory_concepts |-> <<>>,
   ready_for_generation |-> FALSE]

BaseKeys == {"message", "phase", "timestamp"}

SkillLevel(message_lower) ==
  IF AnyWord(message_lower, BeginnerWords) THEN "beginner"
  ELSE IF AnyWord(message_lower, AdvancedWords) THEN "advanced"
  ELSE "intermediate"

ExtractInitialContext(message) ==
  LET message_lower == Lower(message)
      found == MatchedWords(message_lower, InitialGenres)
  IN [NoContext EXCEPT
        !.keys = {"educational_goals", "target_audience", "music_interests",
                  "skill_level"}
                 \cup (IF found # <<>> THEN {"mentioned_genres"} ELSE {}),
        !.skill_level = SkillLevel(message_lower),
        !.educational_goals =
            (IF AnyWord(message_lower, TeachingWords)
               THEN <<"teaching">> ELSE <<>>)
            \o (IF AnyWord(message_lower, LearningWords)
                  THEN <<"learning">> ELSE <<>>),
        !.target_audience =
            (IF AnyWord(message_lower, HigherEducationWords)
               THEN "higher_education"
             ELSE IF AnyWord(message_lower, K12Words) THEN "k12_education"
             ELSE "None"),
        !.music_interests = found,
        !.mentioned_genres = found]

ExtractGenreContext(message) ==
  LET message_lower == Lower(message)
  IN [NoContext EXCEPT
        !.keys = {"mentioned_genres", "cultural_elements",
                  "combination_ideas"},
        !.mentioned_genres = MatchedWords(message_lower, ExplorationGenres),
        !.cultural_elements = MatchedWords(message_lower, CulturalElements)]

ExtractEducationalContext(message) ==
  LET message_lower == Lower(message)
  IN [NoContext EXCEPT
        !.keys = {"skill_level", "theory_concepts", "learning_objectives",
                  "assessment_methods"},
        !.skill_level = SkillLevel(message_lower),
        !.theory_concepts = MatchedWords(message_lower, TheoryConcepts)]

ExtractCulturalContext(message) ==
  LET message_lower == Lower(message)
  IN [NoContext EXCEPT
        !.keys = {"cultural_elements", "historical_context",
                  "social_significance"},
        !.cultural_elements = MatchedWords(message_lower, CulturalElements)]

ExtractGenerationContext(message) ==
  LET message_lower == Lower(message)
      confirmed == AnyWord(message_lower, ConfirmationWords)
  IN [NoContext EXCEPT
        !.keys = IF confirmed THEN {"ready_for_generation"} ELSE {},
        !.ready_for_generation = confirmed]

\* _extract_context: the base keys, updated by the extractor of the phase
ExtractContext(user_message, current_phase) ==
  LET specific ==
        CASE current_phase = INITIAL -> ExtractInitialContext(user_message)
          [] current_phase = GENRE_EXPLORATION ->
               ExtractGenreContext(user_message)
          [] current_phase = EDUCATIONAL_CLARIFICATION ->
               ExtractEducationalContext(user_message)
          [] current_phase = CULTURAL_RESEARCH ->
               ExtractCulturalContext(user_message)
          [] current_phase = READY_FOR_GENERATION ->
               ExtractGenerationContext(user_message)
          [] OTHER -> NoContext
  IN [specific EXCEPT !.keys = BaseKeys \cup specific.keys]

\* response.content of a reply of the model: a non-empty text
LlmText == "Let's explore that together."

(***************************************************************************)
(* _determine_phase_transition                                             *)
(***************************************************************************)
Stay(current_phase) ==
  [should_transition |-> FALSE, new_phase |-> current_phase]

Advance(phase) == [should_transition |-> TRUE, new_phase |-> phase]

\* the GENRE_EXPLORATION branch names the phase after the next one
DeterminePhaseTransitionSkip(current_phase, user_message, ai_response, extracted_context) ==
  LET message_lower == Lower(user_message)
  IN CASE current_phase = INITIAL ->
            IF AnyWord(message_lower, InitialTransitionWords)
              THEN Advance(GENRE_EXPLORATION) ELSE Stay(current_phase)
       [] current_phase = GENRE_EXPLORATION ->
            IF "mentioned_genres" \in extracted_context.keys
               /\ extracted_context.mentioned_genres # <<>>
              THEN Advance(CULTURAL_RESEARCH)
              ELSE Stay(current_phase)
       [] current_phase = EDUCATIONAL_CLARIFICATION ->
            IF "theory_concepts" \in extracted_context.keys
               \/ "has_educational_goals" \in extracted_context.keys
              THEN Advance(CULTURAL_RESEARCH) ELSE Stay(current_phase)
       [] current_phase = CULTURAL_RESEARCH ->
            IF "cultural_elements" \in extracted_context.keys
               \/ "mentioned_genres" \in extracted_context.keys
              THEN Advance(READY_FOR_GENERATION) ELSE Stay(current_phase)
       [] current_phase = READY_FOR_GENERATION ->
            IF "ready_for_generation" \in extracted_context.keys
              THEN Stay(current_phase) ELSE Stay(current_phase)
       [] OTHER -> Stay(current_phase)

\* the GENRE_EXPLORATION branch tests the key only, as the later branches do
DeterminePhaseTransitionKeyOnly(current_phase, user_message, ai_response, extracted_context) ==
  LET message_lower == Lower(user_message)
  IN CASE current_phase = INITIAL ->
            IF AnyWord(message_lower, InitialTransitionWords)
              THEN Advance(GENRE_EXPLORATION) ELSE Stay(current_phase)
       [] current_phase = GENRE_EXPLORATION ->
            IF "mentioned_genres" \in extracted_context.keys
              THEN Advance(EDUCATIONAL_CLARIFICATION)
              ELSE Stay(current_phase)
       [] current_phase = EDUCATIONAL_CLARIFICATION ->
            IF "theory_concepts" \in extracted_context.keys
               \/ "has_educational_goals" \in extracted_context.keys
              THEN Advance(CULTURAL_RESEARCH) ELSE Stay(current_phase)
       [] current_phase = CULTURAL_RESEARCH ->
            IF "cultural_elements" \in extracted_context.keys
               \/ "mentioned_genres" \in extracted_context.keys
              THEN Advance(READY_FOR_GENERATION) ELSE Stay(current_phase)
       [] current_phase = READY_FOR_GENERATION ->
            IF "ready_for_generation" \in extracted_context.keys
              THEN Stay(current_phase) ELSE Stay(current_phase)
       [] OTHER -> Stay(current_phase)

\* a confirmation in READY_FOR_GENERATION is reported as a transition
DeterminePhaseTransitionConfirmed(current_phase, user_message, ai_response, extracted_context) ==
  LET message_lower == Lower(user_message)
  IN CASE current_phase = INITIAL ->
            IF AnyWord(message_lower, InitialTransitionWords)
              THEN Advance(GENRE_EXPLORATION) ELSE Stay(current_phase)
       [] current_phase = GENRE_EXPLORATION ->
            IF "mentioned_genres" \in extracted_context.keys
               /\ extracted_context.mentioned_genres # <<>>
              THEN Advance(EDUCATIONAL_CLARIFICATION)
              ELSE Stay(current_phase)
       [] current_phase = EDUCATIONAL_CLARIFICATION ->
            IF "theory_concepts" \in extracted_context.keys
               \/ "has_educational_goals" \in extracted_context.keys
              THEN Advance(CULTURAL_RESEARCH) ELSE Stay(current_phase)
       [] current_phase = CULTURAL_RESEARCH ->
            IF "cultural_elements" \in extracted_context.keys
               \/ "mentioned_genres" \in extracted_context.keys
              THEN Advance(READY_FOR_GENERATION) ELSE Stay(current_phase)
       [] current_phase = READY_FOR_GENERATION ->
            IF "ready_for_generation" \in extracted_context.keys
              THEN Advance(current_phase) ELSE Stay(current_phase)
       [] OTHER -> Stay(current_phase)

\* a turn answered with a fallback text never leaves its phase
DeterminePhaseTransitionByReply(current_phase, user_message, ai_response, extracted_context) ==
  LET message_lower == Lower(user_message)
  IN CASE ai_response # LlmText -> Stay(current_phase)
       [] current_phase = INITIAL ->
            IF AnyWord(message_lower, InitialTransitionWords)
              THEN Advance(GENRE_EXPLORATION) ELSE Stay(current_phase)
       [] current_phase = GENRE_EXPLORATION ->
            IF "mentioned_genres" \in extracted_context.keys
               /\ extracted_context.mentioned_genres # <<>>
              THEN Advance(EDUCATIONAL_CLARIFICATION)
              ELSE Stay(current_phase)
       [] current_phase = EDUCATIONAL_CLARIFICATION ->
            IF "theory_concepts" \in extracted_context.keys
               \/ "has_educational_goals" \in extracted_context.keys
              THEN Advance(CULTURAL_RESEARCH) ELSE Stay(current_phase)
       [] current_phase = CULTURAL_RESEARCH ->
            IF "cultural_elements" \in extracted_context.keys
               \/ "mentioned_genres" \in extracted_context.keys
              THEN Advance(READY_FOR_GENERATION) ELSE Stay(current_phase)
       [] current_phase = READY_FOR_GENERATION ->
            IF "ready_for_generation" \in extracted_context.keys
              THEN Stay(current_phase) ELSE Stay(current_phase)
       [] OTHER -> Stay(current_phase)

DeterminePhaseTransition(current_phase, user_message, ai_response, extracted_context) ==
  LET message_lower == Lower(user_message)
  IN CASE current_phase = INITIAL ->
            IF AnyWord(message_lower, InitialTransitionWords)
              THEN Advance(GENRE_EXPLORATION) ELSE Stay(current_phase)
       [] current_phase = GENRE_EXPLORATION ->
            IF "mentioned_genres" \in extracted_context.keys
               /\ extracted_context.mentioned_genres # <<>>
              THEN Advance(EDUCATIONAL_CLARIFICATION)
              ELSE Stay(current_phase)
       [] current_phase = EDUCATIONAL_CLARIFICATION ->
            IF "theory_concepts" \in extracted_context.keys
               \/ "has_educational_goals" \in extracted_context.keys
              THEN Advance(CULTURAL_RESEARCH) ELSE Stay(current_phase)
       [] current_phase = CULTURAL_RESEARCH ->
            IF "cultural_elements" \in extracted_context.keys
               \/ "mentioned_genres" \in extracted_context.keys
              THEN Advance(READY_FOR_GENERATION) ELSE Stay(current_phase)
       [] current_phase = READY_FOR_GENERATION ->
            IF "ready_for_generation" \in extracted_context.keys
              THEN Stay(current_phase) ELSE Stay(current_phase)
       [] OTHER -> Stay(current_phase)

(***************************************************************************)
(* Tool orchestrator (AsyncToolOrchestrator).                              *)
(***************************************************************************)
PENDING == "pending"
RUNNING == "running"
COMPLETED == "completed"
FAILED == "failed"
TIMEOUT == "timeout"

ToolExecutionStatus == {PENDING, RUNNING, COMPLETED, FAILED, TIMEOUT}
TerminalStatus == {COMPLETED, FAILED, TIMEOUT}

\* size of the gate (constructor argument max_concurrent_tools)
max_concurrent_tools == 1
\* number of execute_concurrent_searches calls that may overlap
NumBatches == 2
\* longest query list of one batch
MaxQueries == 2
\* searches dispatched in one behaviour, over all batches
MaxSearches == 2

Batches == 1..NumBatches
TaskIds == Batches \X (1..MaxQueries)

\* the texts of the queries of a batch, by position
QueryPool == <<"a", "b", "c", "d">>
QueryLists == {[i \in 1..n |-> QueryPool[i]] : n \in 0..MaxQueries}

\* what the SearchCapability does with one call
\*   ok           returns a dict without an error
\*   error_field  returns a dict whose "error" is a non-empty string
\*   raises       raises an exception whose str() is not empty
\*   raises_blank raises an exception whose str() is empty
\*   malformed    returns a value that is no container (None)
\*   timeout      does not return within tool_timeout
CapabilityOutcomes ==
  {"ok", "error_field", "raises", "raises_blank", "malformed", "timeout"}

\* _execute_search_with_error_handling: the value wait_for yields; "hang"
\* when the capability does not return in time
ExecuteSearchWithErrorHandling(service, outcome) ==
  IF ~service THEN [kind |-> "dict", error |-> "unavailable"]
  ELSE CASE outcome = "ok" -> [kind |-> "dict", error |-> "none"]
         [] outcome = "error_field" -> [kind |-> "dict", error |-> "error_field"]
         [] outcome = "raises" -> [kind |-> "dict", error |-> "exception_text"]
         [] outcome = "raises_blank" -> [kind |-> "dict", error |-> ""]
         [] outcome = "malformed" -> [kind |-> "none", error |-> "none"]
         [] OTHER -> [kind |-> "hang", error |-> "none"]

\* the exception the try block of execute_web_search ends with, "none" when
\* it reaches its return
TryBlockException(search_result) ==
  CASE search_result.kind = "hang" -> "TimeoutError"
    [] search_result.kind = "none" -> "TypeError"
    [] OTHER -> "none"

\* has_error: "error" in search_result and search_result["error"]
HasError(search_result) == search_result.error \notin {"none", ""}

NoResult ==
  [input_data |-> "", status |-> PENDING, error_message |-> "none",
   has_output |-> FALSE, has_execution_time |-> FALSE, raised |-> FALSE]

\* the timeout handler builds its ToolCallResult without a status, which
\* leaves the default of the dataclass
ExecuteWebSearchResultNoStatus(query, search_result) ==
  LET exc == TryBlockException(search_result)
  IN CASE exc = "none" ->
            [input_data |-> query,
             status |-> IF HasError(search_result) THEN FAILED
                        ELSE COMPLETED,
             error_message |-> IF HasError(search_result)
                                 THEN search_result.error ELSE "none",
             has_output |-> TRUE, has_execution_time |-> TRUE,
             raised |-> FALSE]
       [] exc = "TimeoutError" ->
            [input_data |-> query, status |-> PENDING,
             error_message |-> "timed_out",
             has_output |-> FALSE, has_execution_time |-> FALSE,
             raised |-> FALSE]
       [] OTHER ->
            [input_data |-> query, status |-> FAILED,
             error_message |-> "failed_prefix",
             has_output |-> FALSE, has_execution_time |-> FALSE,
             raised |-> FALSE]

\* the ToolCallResult execute_web_search returns for a search result
ExecuteWebSearchResult(query, search_result) ==
  LET exc == TryBlockException(search_result)
  IN CASE exc = "none" ->
            [input_data |-> query,
             status |-> IF HasError(search_result) THEN FAILED
                        ELSE COMPLETED,
             error_message |-> IF HasError(search_result)
                                 THEN search_result.error ELSE "none",
             has_output |-> TRUE, has_execution_time |-> TRUE,
             raised |-> FALSE]
       [] exc = "TimeoutError" ->
            [input_data |-> query, status |-> TIMEOUT,
             error_message |-> "timed_out",
             has_output |-> FALSE, has_execution_time |-> FALSE,
             raised |-> FALSE]
       [] OTHER ->
            [input_data |-> query, status |-> FAILED,
             error_message |-> "failed_prefix",
             has_output |-> FALSE, has_execution_time |-> FALSE,
             raised |-> FALSE]

\* process_search_results: the entries of the "results" lists of the
\* COMPLETED results whose metadata is a dict with that key, in order
RECURSIVE CombinedResults(_)
CombinedResults(results) ==
  IF results = <<>> THEN <<>>
  ELSE LET result == Head(results)
       IN (IF /\ result.status = COMPLETED
              /\ result.metadata.kind = "dict"
              /\ result.metadata.has_results
             THEN result.metadata.results ELSE <<>>)
          \o CombinedResults(Tail(results))

\* the loop forgets the urls it has seen
RECURSIVE UniqueResultsUnseen(_, _)
UniqueResultsUnseen(combined_results, seen_urls) ==
  IF combined_results = <<>> THEN <<>>
  ELSE LET result == Head(combined_results)
       IN IF result.url # "none" /\ result.url \notin seen_urls
            THEN <<result>>
                 \o UniqueResultsUnseen(Tail(combined_results), seen_urls)
            ELSE UniqueResultsUnseen(Tail(combined_results), seen_urls)

\* process_search_results: the loop over combined_results, which keeps an
\* entry when it has a "url" that is not in seen_urls
RECURSIVE UniqueResults(_, _)
UniqueResults(combined_results, seen_urls) ==
  IF combined_results = <<>> THEN <<>>
  ELSE LET result == Head(combined_results)
       IN IF result.url # "none" /\ result.url \notin seen_urls
            THEN <<result>>
                 \o UniqueResults(Tail(combined_results),
                                  seen_urls \cup {result.url})
            ELSE UniqueResults(Tail(combined_results), seen_urls)

\* [r.error_message for r in failed_results if r.error_message]
RECURSIVE ErrorMessages(_)
ErrorMessages(failed_results) ==
  IF failed_results = <<>> THEN <<>>
  ELSE (IF Head(failed_results).error_message \notin {"none", ""}
          THEN <<Head(failed_results).error_message>> ELSE <<>>)
       \o ErrorMessages(Tail(failed_results))

IsCompleted(r) == r.status = COMPLETED
IsNotCompleted(r) == r.status # COMPLETED

\* the dict process_search_results returns
ProcessSearchResults(results) ==
  LET successful_results == SelectSeq(results, IsCompleted)
      failed_results == SelectSeq(results, IsNotCompleted)
      unique_results == UniqueResults(CombinedResults(successful_results), {})
  IN [successful_searches |-> Len(successful_results),
      failed_searches |-> Len(failed_results),
      total_results |-> Len(unique_results),
      results |-> unique_results,
      errors |-> ErrorMessages(failed_results)]

NoSynthesis ==
  [successful_searches |-> 0, failed_searches |-> 0, total_results |-> 0,
   results |-> <<>>, errors |-> <<>>]

\* status argument of the add_tool_call made before the search
InitialToolCallStatus == RUNNING

IdleTask == [pc |-> "idle", tool_call_id |-> FALSE, outcome |-> "none",
             result |-> NoResult]
IdleBatch == [state |-> "idle", queries |-> <<>>, completed |-> <<>>,
              results |-> <<>>]

(***************************************************************************)
(* Spec: process_message calls of one session on one agent.                *)
(***************************************************************************)
\* process_message calls that may overlap
NumCalls == 2
\* process_message calls started in one behaviour
MaxTurns == 2
\* process_message calls started in one behaviour in which a call that
\* loaded the phase early writes it late
MaxRaceTurns == 3
\* process_message calls of one behaviour when none overlaps another
MaxSeqTurns == 5
\* process_message calls started in one behaviour in which the phase is
\* also set through the API
MaxPutTurns == 2
\* store operations that fail although the store is connected
MaxStoreFailures == 1

\* the member of the store's ConversationPhase the agent's enum lacks
GENERATION_COMPLETE == "generation_complete"
\* values of the phase column: the store's ConversationPhase
StoredPhases == ConversationPhase \cup {GENERATION_COMPLETE}

USER == "user"
ASSISTANT == "assistant"

\* what the callers say
UserMessages == {<<"Jazz">>, <<"hello">>}
\* what the caller of a session without overlapping calls says
SeqUserMessages == UserMessages \cup {<<"yes">>, <<"rhythm">>}

ApologyText ==
  "I apologize, but I encountered an error processing your message. Please try again."

\* _get_fallback_response
GetFallbackResponse(phase) ==
  CASE phase = INITIAL ->
         "I'm here to help you create an educational music mashup! What kind of music are you interested in exploring?"
    [] phase = GENRE_EXPLORATION ->
         "That's interesting! What other genres would you like to explore or combine?"
    [] phase = EDUCATIONAL_CLARIFICATION ->
         "Great! What music theory concepts would you like to learn about?"
    [] phase = CULTURAL_RESEARCH ->
         "Excellent! Let's explore the cultural context of these genres. What aspects interest you most?"
    [] phase = READY_FOR_GENERATION ->
         "Perfect! Are you ready to create your educational music mashup?"
    [] OTHER -> "I'm here to help you with your music mashup project!"

\* a prompt is there for the error phase too
SystemPromptPhasesWithError ==
  {INITIAL, GENRE_EXPLORATION, EDUCATIONAL_CLARIFICATION, CULTURAL_RESEARCH,
   READY_FOR_GENERATION, ERROR}

\* keys of self.system_prompts
SystemPromptPhases ==
  {INITIAL, GENRE_EXPLORATION, EDUCATIONAL_CLARIFICATION, CULTURAL_RESEARCH,
   READY_FOR_GENERATION}

\* whether _execute_phase_tools calls the orchestrator for a phase and context
InvokesTools(current_phase, context) ==
  CASE current_phase = INITIAL ->
         "mentioned_genres" \in context.keys /\ context.mentioned_genres # <<>>
    [] current_phase = GENRE_EXPLORATION -> "mentioned_genres" \in context.keys
    [] current_phase = CULTURAL_RESEARCH ->
         "cultural_elements" \in context.keys
         \/ "mentioned_genres" \in context.keys
    [] OTHER -> FALSE

\* tool_results of _execute_phase_tools: {} when nothing ran, the results
\* with their synthesis, or the error caught from the orchestrator
ExecutePhaseTools(orchestrator, current_phase, context, outcome) ==
  IF ~orchestrator \/ ~InvokesTools(current_phase, context) THEN "empty"
  ELSE IF outcome = "raises" THEN "error"
  ELSE "synthesized"

\* the except clause names an exception type that does not cover this one
ErrorResponseNotCaught(exception) ==
  [keys |-> {}, response |-> "", phase |-> ERROR, phase_transition |-> FALSE,
   new_phase |-> ERROR, tool_results |-> "empty", raised |-> TRUE]

\* the response the except clause of process_message returns; every
\* exception raised in the body is an Exception and is caught there
ErrorResponse(exception) ==
  [keys |-> {"response", "phase", "phase_transition", "error"},
   response |-> ApologyText, phase |-> ERROR, phase_transition |-> FALSE,
   new_phase |-> ERROR, tool_results |-> "empty", raised |-> FALSE]

\* a failure of the tools ends the turn with the error response
ResponseDataToolFailureFatal(current_phase, ai_response, decision, tool_results) ==
  IF tool_results = "error" THEN ErrorResponse("Exception")
  ELSE [keys |-> {"response", "phase", "phase_transition", "new_phase",
                  "context", "tool_results", "session_id"},
        response |-> ai_response, phase |-> current_phase,
        phase_transition |-> decision.should_transition,
        new_phase |-> IF decision.should_transition THEN decision.new_phase
                      ELSE current_phase,
        tool_results |-> tool_results, raised |-> FALSE]

\* response_data of _handle_conversation_phase_with_tools
ResponseData(current_phase, ai_response, decision, tool_results) ==
  [keys |-> {"response", "phase", "phase_transition", "new_phase", "context",
             "tool_results", "session_id"},
   response |-> ai_response, phase |-> current_phase,
   phase_transition |-> decision.should_transition,
   new_phase |-> IF decision.should_transition THEN decision.new_phase
                 ELSE current_phase,
   tool_results |-> tool_results, raised |-> FALSE]

NoResponse ==
  [keys |-> {}, response |-> "", phase |-> INITIAL,
   phase_transition |-> FALSE, new_phase |-> INITIAL,
   tool_results |-> "empty", raised |-> FALSE]

NoReturn == [done |-> FALSE, response |-> NoResponse]

\* no row of messages
NoRow == [role |-> "none", content |-> ""]

\* the frame of a process_message call at its first statement
NewCall(user_message) ==
  [pc |-> "start", user_message |-> user_message,
   current_phase |-> INITIAL, response |-> NoResponse]

(***************************************************************************)
(* State.                                                                  *)
(***************************************************************************)
VARIABLES
  \* --- transition decision, as a function of its arguments
  tPc,                 \* "start", "extracted", "decided"
  tPhase,              \* current_phase
  tMessage,            \* user_message, as a sequence of phrases
  tContext,            \* extracted_context
  tDecision,           \* the dict _determine_phase_transition returned
  pPc,                 \* position of the process_search_results call
  pResults,            \* the list of ToolCallResult it is given
  pSynthesis,          \* the dict it returned
  hPc,                 \* position of the call that builds a prompt
  hStored,             \* rows of table messages of a session, oldest first
  hPrompt,             \* the history part of the prompt built from them
  lock,                \* self._lock of the store: the operation holding it, 0
                       \* when it is free
  ops,                 \* the store operations called: kind, position, result
  \* --- orchestrator
  web_search_service,  \* self.web_search_service is configured
  db,                  \* self.db is configured
  conversation_id,     \* the callers pass a conversation_id
  semaphore,           \* value of self.semaphore
  batches,             \* the execute_concurrent_searches calls
  tasks,               \* the execute_web_search calls they gather
  tool_calls,          \* table tool_calls: status of the row of each call
  \* --- agent and store of one session
  connection,          \* self.db._connection is set
  tool_orchestrator,   \* self.tool_orchestrator is set
  conversation,        \* phase of the session's row, "absent" without row
  messages,            \* table messages: roles of the session's rows in order
  turns,               \* process_message calls started so far
  failures,            \* store operations that failed on an open store
  calls,               \* the process_message calls in progress, a bag of frames
  returned,            \* the response the step just taken returned to the
                       \* caller of process_message, NoReturn otherwise
  appended             \* the row the step just taken inserted into
                       \* messages, NoRow otherwise

pVars == <<pPc, pResults, pSynthesis>>
hVars == <<hPc, hStored, hPrompt>>
kVars == <<lock, ops>>
tVars == <<tPc, tPhase, tMessage, tContext, tDecision, pVars, hVars, kVars>>
orchVars == <<web_search_service, db, conversation_id, semaphore, batches, tasks, tool_calls>>
agentVars == <<connection, tool_orchestrator, conversation, messages, turns,
               failures, calls, returned,
               appended>>
vars == <<tVars, orchVars, agentVars>>

PIdle ==
  /\ pPc = "idle"
  /\ pResults = <<>>
  /\ pSynthesis = NoSynthesis

HIdle ==
  /\ hPc = "idle"
  /\ hStored = <<>>
  /\ hPrompt = <<>>

KIdle ==
  /\ lock = 0
  /\ ops = <<>>

TIdle ==
  /\ PIdle
  /\ HIdle
  /\ KIdle
  /\ tPc = "idle"
  /\ tPhase = INITIAL
  /\ tMessage = <<>>
  /\ tContext = NoContext
  /\ tDecision = Stay(INITIAL)

OrchIdle ==
  /\ web_search_service = FALSE
  /\ db = FALSE
  /\ conversation_id = FALSE
  /\ semaphore = max_concurrent_tools
  /\ batches = <<>>
  /\ tasks = <<>>
  /\ tool_calls = <<>>

AgentIdle ==
  /\ connection = FALSE
  /\ tool_orchestrator = FALSE
  /\ conversation = "absent"
  /\ messages = <<>>
  /\ turns = 0
  /\ failures = 0
  /\ calls = EmptyBag
  /\ returned = NoReturn
  /\ appended = NoRow

(***************************************************************************)
(* SpecT: context extraction and transition decision on bounded inputs.    *)
(***************************************************************************)
Vocabulary ==
  {InitialGenres[i] : i \in 1..Len(InitialGenres)}
    \cup {"genre", "music", "style", "type", "explore"}
    \cup {"hello", "thanks", "Jazz", "HIP HOP", "Hip-Hop", "popular",
          "Explore", "rap", "keyboard", "rhythm", "history", "yes"}

Messages ==
  UNION {[1..n -> Vocabulary] : n \in 1..MaxPhrases}

\* contexts handed to _determine_phase_transition directly
SuppliedContexts ==
  {c \in {[NoContext EXCEPT !.keys = k, !.mentioned_genres = g] :
            k \in {{}, {"mentioned_genres"}, {"has_educational_goals"},
                   {"theory_concepts"}, {"cultural_elements"},
                   {"ready_for_generation"},
                   {"mentioned_genres", "has_educational_goals"}},
            g \in {<<>>, <<"jazz">>}} :
     "mentioned_genres" \in c.keys \/ c.mentioned_genres = <<>>}

\* texts of a turn: the reply of the model or a fallback
AiResponses == {LlmText} \cup {GetFallbackResponse(p) : p \in ConversationPhase}

InitT ==
  /\ tPc = "start"
  /\ tPhase \in ConversationPhase
  /\ tMessage \in Messages
  /\ tContext = NoContext
  /\ tDecision = Stay(tPhase)
  /\ PIdle
  /\ HIdle
  /\ KIdle
  /\ OrchIdle
  /\ AgentIdle

\* extracted_context = await self._extract_context(user_message, phase)
ExtractContextStep ==
  /\ tPc = "start"
  /\ tContext' = ExtractContext(Text(tMessage), tPhase)
  /\ tPc' = "extracted"
  /\ UNCHANGED <<tPhase, tMessage, tDecision, pVars, hVars, kVars,
                 orchVars, agentVars>>

\* a caller passes a context of its own
SupplyContext ==
  /\ tPc = "start"
  /\ tContext' \in SuppliedContexts
  /\ tPc' = "extracted"
  /\ UNCHANGED <<tPhase, tMessage, tDecision, pVars, hVars, kVars,
                 orchVars, agentVars>>

\* await self._determine_phase_transition(phase, message, ai_response, ctx)
DecideStep ==
  /\ tPc = "extracted"
  /\ \E ai_response \in AiResponses :
       tDecision' = DeterminePhaseTransition(tPhase, Text(tMessage),
                                             ai_response, tContext)
  /\ tPc' = "decided"
  /\ UNCHANGED <<tPhase, tMessage, tContext, pVars, hVars, kVars,
                 orchVars, agentVars>>

NextT == ExtractContextStep \/ SupplyContext \/ DecideStep

SpecT == InitT /\ [][NextT]_vars

(***************************************************************************)
(* SpecSyn: process_search_results on bounded lists of results.            *)
(***************************************************************************)
\* longest list handed to process_search_results
MaxResults == 2
\* entries of the "results" lists of one input, over all its results
MaxEntries == 2

\* an entry of a "results" list: a dict with its "url" and what else it
\* carries; url "none" is an entry without the key
Entries ==
  {[url |-> "u1", title |-> "a"], [url |-> "u1", title |-> "b"],
   [url |-> "u2", title |-> "a"], [url |-> "none", title |-> "a"]}

\* metadata of a ToolCallResult: None, a dict without "results", or a dict
\* with a "results" list of k entries
MetadataWith(k) ==
  (IF k = 0
     THEN {[kind |-> "none", has_results |-> FALSE, results |-> <<>>],
           [kind |-> "dict", has_results |-> FALSE, results |-> <<>>]}
     ELSE {})
  \cup {[kind |-> "dict", has_results |-> TRUE, results |-> l] :
          l \in [1..k -> Entries]}

\* status and error_message of results that are not COMPLETED
NotCompletedShapes ==
  {<<FAILED, "none">>, <<FAILED, "">>, <<FAILED, "failed_a">>,
   <<FAILED, "failed_b">>, <<TIMEOUT, "timed_out">>, <<PENDING, "none">>}

\* the ToolCallResult values with k entries
ResultsWith(k) ==
  {[status |-> COMPLETED, error_message |-> "none", metadata |-> m] :
     m \in MetadataWith(k)}
  \cup (IF k = 0
         THEN {[status |-> sh[1], error_message |-> sh[2],
                metadata |-> [kind |-> "none", has_results |-> FALSE,
                              results |-> <<>>]] :
                 sh \in NotCompletedShapes}
         ELSE {[status |-> FAILED, error_message |-> "failed_a",
                metadata |-> m] : m \in MetadataWith(k)})

\* the entries of the "results" lists of a list of results
RECURSIVE EntriesIn(_)
EntriesIn(results) ==
  IF results = <<>> THEN 0
  ELSE Len(Head(results).metadata.results) + EntriesIn(Tail(results))

InitSyn ==
  /\ pPc = "collect"
  /\ pResults = <<>>
  /\ pSynthesis = NoSynthesis
  /\ HIdle
  /\ KIdle
  /\ tPc = "idle"
  /\ tPhase = INITIAL
  /\ tMessage = <<>>
  /\ tContext = NoContext
  /\ tDecision = Stay(INITIAL)
  /\ OrchIdle
  /\ AgentIdle

\* the caller puts one more ToolCallResult on the list it will pass
CollectResult ==
  /\ pPc = "collect"
  /\ Len(pResults) < MaxResults
  /\ \E k \in 0..(MaxEntries - EntriesIn(pResults)) :
       \E r \in ResultsWith(k) : pResults' = Append(pResults, r)
  /\ UNCHANGED <<pPc, pSynthesis, tPc, tPhase, tMessage, tContext,
                 tDecision, hVars, kVars, orchVars,
                 agentVars>>

\* synthesized = await self.tool_orchestrator.process_search_results(...)
ProcessSearchResultsStep ==
  /\ pPc = "collect"
  /\ pSynthesis' = ProcessSearchResults(pResults)
  /\ pPc' = "done"
  /\ UNCHANGED <<pResults, tPc, tPhase, tMessage, tContext, tDecision,
                 hVars, kVars, orchVars, agentVars>>

NextSyn == CollectResult \/ ProcessSearchResultsStep

SpecSyn == InitSyn /\ [][NextSyn]_vars

(***************************************************************************)
(* SpecHist: the history part of the prompt, on bounded histories.         *)
(***************************************************************************)
\* rows of table messages of the session
MaxStored == 11

\* limit of the get_messages call of the handler
HistoryLimit == 10
\* messages[-6:]
HistoryWindow == 6

\* db.get_messages(conversation_id, limit, offset): ORDER BY timestamp ASC,
\* with LIMIT ? OFFSET ? when limit is truthy
GetMessages(rows, limit, offset) ==
  IF limit # 0
    THEN SubSeq(rows, offset + 1,
                IF offset + limit < Len(rows) THEN offset + limit
                ELSE Len(rows))
    ELSE rows

\* messages[-n:]
LastOf(rows, n) ==
  SubSeq(rows, IF Len(rows) > n THEN Len(rows) - n + 1 ELSE 1, Len(rows))

IsTurn(row) == row.role \in {USER, ASSISTANT}

\* the HumanMessage / AIMessage entries _prepare_messages_for_ai_with_tools
\* appends after the system message
PromptHistory(rows) == SelectSeq(LastOf(rows, HistoryWindow), IsTurn)

InitHist ==
  /\ hPc = "store"
  /\ hStored = <<>>
  /\ hPrompt = <<>>
  /\ PIdle
  /\ KIdle
  /\ tPc = "idle"
  /\ tPhase = INITIAL
  /\ tMessage = <<>>
  /\ tContext = NoContext
  /\ tDecision = Stay(INITIAL)
  /\ OrchIdle
  /\ AgentIdle

\* add_message: one more row of the session, after those stored
StoreMessage(role) ==
  /\ hPc = "store"
  /\ Len(hStored) < MaxStored
  /\ hStored' = Append(hStored, [id |-> Len(hStored) + 1, role |-> role])
  /\ UNCHANGED <<hPc, hPrompt, pVars, tPc, tPhase, tMessage, tContext,
                 tDecision, kVars, orchVars, agentVars>>

\* messages = await self.db.get_messages(session_id, limit=10), then
\* _prepare_messages_for_ai_with_tools(messages, ...)
PrepareMessagesForAi ==
  /\ hPc = "store"
  /\ hPrompt' = PromptHistory(GetMessages(hStored, HistoryLimit, 0))
  /\ hPc' = "done"
  /\ UNCHANGED <<hStored, pVars, tPc, tPhase, tMessage, tContext,
                 tDecision, kVars, orchVars, agentVars>>

NextHist ==
  \/ \E role \in {USER, ASSISTANT} : StoreMessage(role)
  \/ PrepareMessagesForAi

SpecHist == InitHist /\ [][NextHist]_vars

(***************************************************************************)
(* SpecLock: operations of one AsyncConversationDB and its lock.           *)
(***************************************************************************)
\* store operations called in one behaviour
NumOps == 3

Ops == 1..NumOps

\* the operations: get_conversation and add_message take the lock around
\* one statement, as the other operations do; get_conversation_summary
\* calls get_conversation inside its own `async with self._lock`
OpKinds == {"get_conversation", "add_message", "get_conversation_summary"}

IdleOp == [kind |-> "none", pc |-> "idle", result |-> "none"]

InitLock ==
  /\ lock = 0
  /\ ops = [i \in Ops |-> IdleOp]
  /\ PIdle
  /\ HIdle
  /\ tPc = "idle"
  /\ tPhase = INITIAL
  /\ tMessage = <<>>
  /\ tContext = NoContext
  /\ tDecision = Stay(INITIAL)
  /\ OrchIdle
  /\ AgentIdle

\* a caller awaits an operation of the store: the coroutine runs up to
\* its `async with self._lock`
CallOperation(i, kind) ==
  /\ ops[i].pc = "idle"
  /\ \A j \in 1..(i - 1) : ops[j].pc # "idle"
  /\ ops' = [ops EXCEPT ![i] = [kind |-> kind, pc |-> "acquire",
                                 result |-> "none"]]
  /\ UNCHANGED <<lock, pVars, hVars, tPc, tPhase, tMessage, tContext,
                 tDecision, orchVars, agentVars>>

\* asyncio.Lock.acquire: returns when the lock is not held, by anyone
AcquireLock(i) ==
  /\ ops[i].pc \in {"acquire", "inner_acquire"}
  /\ lock = 0
  /\ lock' = i
  /\ ops' = [ops EXCEPT ![i].pc =
       IF ops[i].pc = "acquire" THEN "body" ELSE "inner_body"]
  /\ UNCHANGED <<pVars, hVars, tPc, tPhase, tMessage, tContext, tDecision,
                 orchVars, agentVars>>

\* the body under the lock. A statement returns or raises, and the except
\* clause turns the exception into the error value; leaving `async with`
\* releases the lock. get_conversation_summary first awaits
\* self.get_conversation(conversation_id), holding the lock
RunUnderLock(i) ==
  /\ ops[i].pc \in {"body", "inner_body", "counts"}
  /\ lock = i
  /\ \/ /\ ops[i].pc = "body"
        /\ ops[i].kind = "get_conversation_summary"
        /\ ops' = [ops EXCEPT ![i].pc = "inner_acquire"]
        /\ lock' = lock
     \/ /\ ops[i].pc = "body"
        /\ ops[i].kind # "get_conversation_summary"
        /\ \E result \in {"value", "error_value"} :
             ops' = [ops EXCEPT ![i].pc = "returned", ![i].result = result]
        /\ lock' = 0
     \/ /\ ops[i].pc = "inner_body"
        /\ ops' = [ops EXCEPT ![i].pc = "counts"]
        /\ lock' = 0
     \/ /\ ops[i].pc = "counts"
        /\ \E result \in {"value", "error_value"} :
             ops' = [ops EXCEPT ![i].pc = "returned", ![i].result = result]
        /\ lock' = 0
  /\ UNCHANGED <<pVars, hVars, tPc, tPhase, tMessage, tContext, tDecision,
                 orchVars, agentVars>>

NextLock ==
  \/ \E i \in Ops, kind \in OpKinds : CallOperation(i, kind)
  \/ \E i \in Ops : AcquireLock(i)
  \/ \E i \in Ops : RunUnderLock(i)

\* the event loop runs every coroutine that is ready
FairLock ==
  \A i \in Ops : WF_vars(AcquireLock(i)) /\ WF_vars(RunUnderLock(i))

SpecLock == InitLock /\ [][NextLock]_vars /\ FairLock

(***************************************************************************)
(* SpecOrch: overlapping execute_concurrent_searches calls.                *)
(***************************************************************************)
InitOrch ==
  /\ web_search_service \in BOOLEAN
  /\ db \in BOOLEAN
  /\ conversation_id \in BOOLEAN
  /\ semaphore = max_concurrent_tools
  /\ batches = [b \in Batches |-> IdleBatch]
  /\ tasks = [t \in TaskIds |-> IdleTask]
  /\ tool_calls = [t \in TaskIds |-> "absent"]
  /\ TIdle
  /\ AgentIdle

TasksOf(b) == {<<b, i>> : i \in 1..Len(batches[b].queries)}
Dispatched == {t \in TaskIds : tasks[t].pc # "idle"}

\* execute_concurrent_searches(queries, context, conversation_id): the
\* empty list returns at once; otherwise one execute_web_search coroutine
\* per query is handed to asyncio.gather
ExecuteConcurrentSearches(b, queries) ==
  /\ batches[b].state = "idle"
  /\ \A a \in 1..(b - 1) : batches[a].state # "idle"
  /\ Cardinality(Dispatched) + Len(queries) <= MaxSearches
  /\ IF queries = <<>>
       THEN /\ batches' = [batches EXCEPT ![b].state = "returned"]
            /\ tasks' = tasks
       ELSE /\ batches' = [batches EXCEPT
                 ![b].state = "gathering",
                 ![b].queries = queries]
            /\ tasks' = [t \in TaskIds |->
                 IF t[1] = b /\ t[2] <= Len(queries)
                   THEN [IdleTask EXCEPT !.pc = "start"]
                   ELSE tasks[t]]
  /\ UNCHANGED <<web_search_service, db, conversation_id, semaphore, tool_calls, tVars, agentVars>>

\* execute_web_search, up to the gate: the tool-call row is inserted when a
\* store and a conversation id are there; add_tool_call returns None when
\* the store fails
AddToolCall(t) ==
  /\ tasks[t].pc = "start"
  /\ IF db /\ conversation_id
       THEN \E ok \in BOOLEAN :
              /\ tasks' = [tasks EXCEPT ![t].pc = "acquire",
                                        ![t].tool_call_id = ok]
              /\ tool_calls' = IF ok
                   THEN [tool_calls EXCEPT ![t] = InitialToolCallStatus]
                   ELSE tool_calls
       ELSE /\ tasks' = [tasks EXCEPT ![t].pc = "acquire"]
            /\ tool_calls' = tool_calls
  /\ UNCHANGED <<web_search_service, db, conversation_id, semaphore, batches, tVars, agentVars>>

\* the search calls in flight: inside wait_for, holding the gate
InFlight == {t \in TaskIds : tasks[t].pc = "search"}

\* a gate per batch instead of one per orchestrator
CanAcquirePerBatch(value, t) ==
  Cardinality({u \in InFlight : u[1] = t[1]}) < max_concurrent_tools

\* asyncio.Semaphore: acquire() of call t proceeds without waiting iff the
\* value is positive
CanAcquire(value, t) == value > 0

\* async with self.semaphore: entry
AcquireSemaphore(t) ==
  /\ tasks[t].pc = "acquire"
  /\ CanAcquire(semaphore, t)
  /\ semaphore' = semaphore - 1
  /\ tasks' = [tasks EXCEPT ![t].pc = "search"]
  /\ UNCHANGED <<web_search_service, db, conversation_id, batches, tool_calls, tVars, agentVars>>

\* the row after update_tool_call(status=...), which returns False and
\* changes nothing when the store fails
UpdateToolCall(row, status, ok) == IF ok THEN status ELSE row

\* the rest of execute_web_search: wait_for ends (value, exception or
\* timeout, after which the cancelled search has unwound), the gate is
\* released, the row is updated and the ToolCallResult returned
SearchEnds(t, outcome) ==
  /\ tasks[t].pc = "search"
  /\ LET b == t[1]
         search_result ==
           ExecuteSearchWithErrorHandling(web_search_service, outcome)
         result ==
           ExecuteWebSearchResult(batches[b].queries[t[2]], search_result)
     IN /\ tasks' = [tasks EXCEPT ![t].pc = "done",
                                  ![t].outcome = outcome,
                                  ![t].result = result]
        /\ batches' = [batches EXCEPT
              ![b].completed = Append(@, t[2])]
        /\ IF tasks[t].tool_call_id
             THEN \E ok \in BOOLEAN :
                    tool_calls' = [tool_calls EXCEPT
                      ![t] = UpdateToolCall(@, result.status, ok)]
             ELSE tool_calls' = tool_calls
  /\ semaphore' = semaphore + 1
  /\ UNCHANGED <<web_search_service, db, conversation_id, tVars, agentVars>>

\* the results in the order in which the searches ended
GatherResultsAsCompleted(b) ==
  [i \in 1..Len(batches[b].completed) |->
     tasks[<<b, batches[b].completed[i]>>].result]

\* results of gather(*tasks, return_exceptions=True), processed: in the
\* order of the tasks; an exception becomes a FAILED result for queries[i]
GatherResults(b) ==
  [i \in 1..Len(batches[b].queries) |->
     IF tasks[<<b, i>>].result.raised
       THEN [NoResult EXCEPT !.input_data = batches[b].queries[i],
                             !.status = FAILED,
                             !.error_message = "exception_text"]
       ELSE tasks[<<b, i>>].result]

\* the batch returns as soon as one search has failed
GatherUntilFailure(b) ==
  /\ batches[b].state = "gathering"
  /\ \/ \A t \in TasksOf(b) : tasks[t].pc = "done"
     \/ \E t \in TasksOf(b) :
          tasks[t].pc = "done" /\ tasks[t].result.status # COMPLETED
  /\ batches' = [batches EXCEPT ![b].state = "returned",
                                ![b].results = GatherResults(b)]
  /\ UNCHANGED <<web_search_service, db, conversation_id, semaphore, tasks,
                 tool_calls, tVars, agentVars>>

\* gather returns when every task is done
Gather(b) ==
  /\ batches[b].state = "gathering"
  /\ \A t \in TasksOf(b) : tasks[t].pc = "done"
  /\ batches' = [batches EXCEPT ![b].state = "returned",
                                ![b].results = GatherResults(b)]
  /\ UNCHANGED <<web_search_service, db, conversation_id, semaphore, tasks, tool_calls, tVars, agentVars>>

NextOrch ==
  \/ \E b \in Batches, q \in QueryLists : ExecuteConcurrentSearches(b, q)
  \/ \E t \in TaskIds : AddToolCall(t)
  \/ \E t \in TaskIds : AcquireSemaphore(t)
  \/ \E t \in TaskIds :
       \E o \in (IF web_search_service THEN CapabilityOutcomes
                 ELSE {"unavailable"}) : SearchEnds(t, o)
  \/ \E b \in Batches : Gather(b)

SpecOrch == InitOrch /\ [][NextOrch]_vars

(***************************************************************************)
(* Spec, SpecSeq: process_message.                                         *)
(***************************************************************************)
\* the agent as constructed: the store is not connected, no conversation
\* exists; tools are enabled or not
Init ==
  /\ connection = FALSE
  /\ tool_orchestrator \in BOOLEAN
  /\ conversation = "absent"
  /\ messages = <<>>
  /\ turns = 0
  /\ failures = 0
  /\ calls = EmptyBag
  /\ returned = NoReturn
  /\ appended = NoRow
  /\ TIdle
  /\ OrchIdle

\* a store operation runs its statement without an exception: never when
\* self._connection is None; otherwise the statement may fail
StoreOutcomes ==
  IF ~connection THEN {FALSE}
  ELSE IF failures < MaxStoreFailures THEN BOOLEAN ELSE {TRUE}

Failed(ok) == IF connection /\ ~ok THEN failures + 1 ELSE failures

\* init_db, called on the agent's store by its owner
InitDb ==
  /\ ~connection
  /\ connection' = TRUE
  /\ returned' = NoReturn
  /\ appended' = NoRow
  /\ UNCHANGED <<tool_orchestrator, conversation, messages, turns, failures,
                 calls, tVars, orchVars>>

\* the call after `conversation` was loaded: current_phase =
\* ConversationPhase(conversation['phase']); None and a value outside the
\* enum raise
WithConversation(call, row) ==
  IF row \in ConversationPhase
    THEN [call EXCEPT !.pc = "handle", !.current_phase = row]
    ELSE [call EXCEPT !.pc = "return",
                      !.response = ErrorResponse("TypeError")]

\* the calls in progress other than `call`
Others(call) == calls (-) SetToBag({call})

\* the calls and the last return after a call took a step that left it as
\* `call`, the other calls being `others`: a call at its return statement
\* hands over its response and ends
AfterStep(others, call) ==
  /\ calls' = IF call.pc = "return" THEN others
              ELSE others (+) SetToBag({call})
  /\ returned' = IF call.pc = "return"
                   THEN [done |-> TRUE, response |-> call.response]
                   ELSE NoReturn

\* db.get_conversation: the row, None when absent or when the store fails
GetConversationRow(ok) == IF ok THEN conversation ELSE "absent"

\* the caller awaits process_message(session_id, user_message): the new
\* coroutine runs up to the first get_conversation of
\* _get_or_create_conversation
StartProcessMessage(user_message, limit) ==
  /\ BagCardinality(calls) < NumCalls
  /\ turns < limit
  /\ turns' = turns + 1
  /\ \E ok \in StoreOutcomes :
       /\ LET call == NewCall(user_message)
              row == GetConversationRow(ok)
          IN AfterStep(calls,
                       IF row = "absent" THEN [call EXCEPT !.pc = "create"]
                       ELSE WithConversation(call, row))
       /\ failures' = Failed(ok)
  /\ appended' = NoRow
  /\ UNCHANGED <<connection, tool_orchestrator, conversation, messages,
                 tVars, orchVars>>

\* process_message, awaited while other calls may be in progress
ProcessMessage(user_message) == StartProcessMessage(user_message, MaxTurns)

\* INSERT OR REPLACE: an existing row is written again with phase INITIAL
CreateConversationRowReplace(ok) == IF ok THEN INITIAL ELSE conversation

\* the row after db.create_conversation: inserted with phase INITIAL; an
\* existing row (IntegrityError) or a store failure returns False
CreateConversationRow(ok) ==
  IF ok /\ conversation = "absent" THEN INITIAL ELSE conversation

\* _get_or_create_conversation: create_conversation
CreateConversation(call) ==
  /\ call.pc = "create"
  /\ \E ok \in StoreOutcomes :
       /\ conversation' = CreateConversationRow(ok)
       /\ failures' = Failed(ok)
  /\ AfterStep(Others(call), [call EXCEPT !.pc = "reget"])
  /\ appended' = NoRow
  /\ UNCHANGED <<connection, tool_orchestrator, messages, turns, tVars,
                 orchVars>>

\* _get_or_create_conversation: get_conversation after the create
GetCreatedConversation(call) ==
  /\ call.pc = "reget"
  /\ \E ok \in StoreOutcomes :
       /\ AfterStep(Others(call),
                    WithConversation(call, GetConversationRow(ok)))
       /\ failures' = Failed(ok)
  /\ appended' = NoRow
  /\ UNCHANGED <<connection, tool_orchestrator, conversation, messages,
                 turns, tVars, orchVars>>

\* extracted_context of the call
CallContext(call) ==
  ExtractContext(Text(call.user_message), call.current_phase)

\* the same generic fallback whatever the phase
AiResponseDefault(llm, current_phase) ==
  IF llm = "ok" THEN LlmText ELSE GetFallbackResponse(ERROR)

\* the text of the turn: the content of the model's reply, or the fallback
\* of the phase when ainvoke raises
AiResponse(llm, current_phase) ==
  IF llm = "ok" THEN LlmText ELSE GetFallbackResponse(current_phase)

\* what the orchestrator can do when _execute_phase_tools calls it
ToolOutcomes(call) ==
  IF tool_orchestrator /\ InvokesTools(call.current_phase, CallContext(call))
    THEN {"ok", "raises"}
    ELSE {"ok"}

\* _extract_context and _handle_conversation_phase_with_tools: the tools
\* of the phase, get_messages, the prompt (which looks the phase up in
\* self.system_prompts), the model, the transition decision
HandleConversationPhaseWithTools(call) ==
  /\ call.pc = "handle"
  /\ \E tools \in ToolOutcomes(call), llm \in {"ok", "raises"},
        ok \in StoreOutcomes :
       LET context == CallContext(call)
           tool_results ==
             ExecutePhaseTools(tool_orchestrator, call.current_phase,
                               context, tools)
           ai_response == AiResponse(llm, call.current_phase)
           decision ==
             DeterminePhaseTransition(call.current_phase,
                                      Text(call.user_message), ai_response,
                                      context)
       IN /\ AfterStep(Others(call),
               IF call.current_phase \in SystemPromptPhases
                 THEN [call EXCEPT
                         !.pc = "add_user",
                         !.response =
                            ResponseData(call.current_phase, ai_response,
                                         decision, tool_results)]
                 ELSE [call EXCEPT !.pc = "return",
                                   !.response = ErrorResponse("KeyError")])
          /\ failures' = Failed(ok)
  /\ appended' = NoRow
  /\ UNCHANGED <<connection, tool_orchestrator, conversation, messages,
                 turns, tVars, orchVars>>

\* db.add_message: appends a row; returns False when the store fails
AddMessage(ok, role) == IF ok THEN Append(messages, role) ELSE messages

\* the row add_message(conversation_id, role, content) inserts
InsertedRow(ok, role, content) ==
  IF ok THEN [role |-> role, content |-> content] ELSE NoRow

\* await self.db.add_message(session_id, MessageRole.USER, user_message)
AddUserMessage(call) ==
  /\ call.pc = "add_user"
  /\ \E ok \in StoreOutcomes :
       /\ messages' = AddMessage(ok, USER)
       /\ appended' = InsertedRow(ok, USER, call.user_message)
       /\ failures' = Failed(ok)
  /\ AfterStep(Others(call), [call EXCEPT !.pc = "add_assistant"])
  /\ UNCHANGED <<connection, tool_orchestrator, conversation, turns, tVars,
                 orchVars>>

\* await self.db.add_message(session_id, MessageRole.ASSISTANT, response);
\* without a transition the call returns response_data
AddAssistantMessage(call) ==
  /\ call.pc = "add_assistant"
  /\ \E ok \in StoreOutcomes :
       /\ messages' = AddMessage(ok, ASSISTANT)
       /\ appended' = InsertedRow(ok, ASSISTANT, call.response.response)
       /\ failures' = Failed(ok)
  /\ AfterStep(Others(call), [call EXCEPT !.pc =
       IF call.response.phase_transition THEN "update_phase"
       ELSE "return"])
  /\ UNCHANGED <<connection, tool_orchestrator, conversation, turns, tVars,
                 orchVars>>

\* the row after db.update_conversation_phase: UPDATE conversations SET
\* phase = ? WHERE conversation_id = ?
UpdatePhaseRow(ok, phase) ==
  IF ok /\ conversation # "absent" THEN phase ELSE conversation

\* await self.db.update_conversation_phase(session_id, new_phase), then
\* the return of response_data
UpdateConversationPhase(call) ==
  /\ call.pc = "update_phase"
  /\ \E ok \in StoreOutcomes :
       /\ conversation' = UpdatePhaseRow(ok, call.response.new_phase)
       /\ failures' = Failed(ok)
  /\ AfterStep(Others(call), [call EXCEPT !.pc = "return"])
  /\ appended' = NoRow
  /\ UNCHANGED <<connection, tool_orchestrator, messages, turns, tVars,
                 orchVars>>

\* the frames of the calls in progress
Frames == BagToSet(calls)

Next ==
  \/ InitDb
  \/ \E m \in UserMessages : ProcessMessage(m)
  \/ \E call \in Frames : CreateConversation(call)
  \/ \E call \in Frames : GetCreatedConversation(call)
  \/ \E call \in Frames : HandleConversationPhaseWithTools(call)
  \/ \E call \in Frames : AddUserMessage(call)
  \/ \E call \in Frames : AddAssistantMessage(call)
  \/ \E call \in Frames : UpdateConversationPhase(call)

Spec == Init /\ [][Next]_vars

\* process_message of a longer run of overlapping calls
ProcessMessageLate(user_message) ==
  StartProcessMessage(user_message, MaxRaceTurns)

NextRace ==
  \/ InitDb
  \/ \E m \in UserMessages : ProcessMessageLate(m)
  \/ \E call \in Frames : CreateConversation(call)
  \/ \E call \in Frames : GetCreatedConversation(call)
  \/ \E call \in Frames : HandleConversationPhaseWithTools(call)
  \/ \E call \in Frames : AddUserMessage(call)
  \/ \E call \in Frames : AddAssistantMessage(call)
  \/ \E call \in Frames : UpdateConversationPhase(call)

SpecRace == Init /\ [][NextRace]_vars

\* process_message awaited only when no other call is in progress
ProcessMessageAlone(user_message) ==
  /\ calls = EmptyBag
  /\ StartProcessMessage(user_message, MaxSeqTurns)

NextSeq ==
  \/ InitDb
  \/ \E m \in SeqUserMessages : ProcessMessageAlone(m)
  \/ \E call \in Frames : CreateConversation(call)
  \/ \E call \in Frames : GetCreatedConversation(call)
  \/ \E call \in Frames : HandleConversationPhaseWithTools(call)
  \/ \E call \in Frames : AddUserMessage(call)
  \/ \E call \in Frames : AddAssistantMessage(call)
  \/ \E call \in Frames : UpdateConversationPhase(call)

SpecSeq == Init /\ [][NextSeq]_vars

\* PUT /conversations/{conversation_id}/phase: the endpoint accepts every
\* value of the store's ConversationPhase and writes it
PutConversationPhase(phase) ==
  /\ calls = EmptyBag
  /\ conversation # phase
  /\ \E ok \in StoreOutcomes :
       /\ conversation' = UpdatePhaseRow(ok, phase)
       /\ failures' = Failed(ok)
  /\ returned' = NoReturn
  /\ appended' = NoRow
  /\ UNCHANGED <<connection, tool_orchestrator, messages, turns, calls,
                 tVars, orchVars>>

\* process_message on a session whose phase is also set through the API
ProcessMessageBetweenPuts(user_message) ==
  /\ calls = EmptyBag
  /\ StartProcessMessage(user_message, MaxPutTurns)

NextPut ==
  \/ InitDb
  \/ \E phase \in StoredPhases : PutConversationPhase(phase)
  \/ \E m \in UserMessages : ProcessMessageBetweenPuts(m)
  \/ \E call \in Frames : CreateConversation(call)
  \/ \E call \in Frames : GetCreatedConversation(call)
  \/ \E call \in Frames : HandleConversationPhaseWithTools(call)
  \/ \E call \in Frames : AddUserMessage(call)
  \/ \E call \in Frames : AddAssistantMessage(call)
  \/ \E call \in Frames : UpdateConversationPhase(call)

SpecPut == Init /\ [][NextPut]_vars

(***************************************************************************)
(* Properties.                                                             *)
(***************************************************************************)

\* C1: every process_message call returns to its caller, without raising,
\* a response whose text is a non-empty string, whatever failed in the
\* store, the model or the tools.
ProcessMessageAlwaysAnswers ==
  returned.done =>
    /\ ~returned.response.raised
    /\ "response" \in returned.response.keys
    /\ returned.response.response # ""

\* a call that found the store failing returned the apology
ProcessMessageAnswersOnStoreFailure ==
  /\ returned.done
  /\ connection
  /\ failures > 0
  /\ returned.response.response = ApologyText
  /\ "error" \in returned.response.keys

\* C2: when the calls of a session do not overlap, no step moves the stored
\* phase back in the order INITIAL .. READY_FOR_GENERATION, and the call in
\* progress leaves it at the phase it loaded or at the next one.
PhaseAdvancesStepwiseSequential ==
  [][/\ PhaseIndex(conversation') >= PhaseIndex(conversation)
     /\ \A call \in Frames :
          call.pc \in {"handle", "add_user", "add_assistant",
                       "update_phase"}
            => /\ PhaseIndex(conversation')
                    >= PhaseIndex(call.current_phase)
               /\ PhaseIndex(conversation')
                    <= PhaseIndex(call.current_phase) + 1]_vars

\* a sequence of calls has walked the session to READY_FOR_GENERATION, the
\* last one writing the phase
SequentialCallsReachReady ==
  /\ returned.done
  /\ returned.response.phase_transition
  /\ returned.response.phase = CULTURAL_RESEARCH
  /\ conversation = READY_FOR_GENERATION

\* C3: no phase write of overlapping process_message calls moves the stored
\* phase of the session back in the phase order.
PhaseNeverRegressesConcurrent ==
  [][PhaseIndex(conversation') >= PhaseIndex(conversation)]_vars

\* C4: the searches in flight on one orchestrator never exceed
\* max_concurrent_tools, the searches of overlapping batches counted
\* together.
InFlightWithinLimit == Cardinality(InFlight) <= max_concurrent_tools

\* the gate is full and a search of another batch waits at it
GateFullAcrossBatches ==
  /\ Cardinality(InFlight) = max_concurrent_tools
  /\ \E t \in InFlight, u \in TaskIds :
       t[1] # u[1] /\ tasks[u].pc = "acquire"

\* C5: execute_web_search returns, without raising, a ToolCallResult whose
\* status is COMPLETED, FAILED or TIMEOUT, whatever the search did and
\* whether or not a store or a search service is configured.
ExecuteWebSearchReturnsTerminal ==
  \A t \in TaskIds :
    tasks[t].pc = "done" =>
      /\ ~tasks[t].result.raised
      /\ tasks[t].result.status \in TerminalStatus

\* a search that timed out was answered with TIMEOUT while its row could
\* not be updated
TimedOutSearchReturned ==
  \E t \in TaskIds :
    /\ tasks[t].pc = "done"
    /\ tasks[t].outcome = "timeout"
    /\ tasks[t].result.status = TIMEOUT
    /\ tasks[t].tool_call_id
    /\ tool_calls[t] \notin TerminalStatus

\* C6: the tool-call row of an execute_web_search call is PENDING from its
\* insertion until the search has ended, and once the call has returned it
\* holds the terminal status of the returned ToolCallResult.
ToolCallRowPendingThenTerminal ==
  \A t \in TaskIds :
    tasks[t].tool_call_id =>
      /\ tasks[t].pc \in {"acquire", "search"} => tool_calls[t] = PENDING
      /\ tasks[t].pc = "done" =>
           /\ tool_calls[t] \in TerminalStatus
           /\ tool_calls[t] = tasks[t].result.status

\* C7: a returned batch has one result per query, the i-th for the i-th
\* query, in whatever order the searches ended; a batch without queries
\* returns the empty list and dispatches no search.
ResultsAlignedWithQueries ==
  \A b \in Batches :
    batches[b].state = "returned" =>
      /\ Len(batches[b].results) = Len(batches[b].queries)
      /\ \A i \in 1..Len(batches[b].queries) :
           batches[b].results[i].input_data = batches[b].queries[i]
      /\ \A i \in 1..MaxQueries :
           i > Len(batches[b].queries) => tasks[<<b, i>>].pc = "idle"

\* a batch returned whose second search ended before its first
BatchReturnedOutOfOrder ==
  \E b \in Batches :
    /\ batches[b].state = "returned"
    /\ Len(batches[b].queries) >= 2
    /\ batches[b].completed[1] > batches[b].completed[2]

\* the status a search outcome stands for
StatusOfOutcome(outcome) ==
  CASE outcome = "ok" -> COMPLETED
    [] outcome = "raises_blank" -> COMPLETED
    [] outcome = "timeout" -> TIMEOUT
    [] outcome \in {"error_field", "raises", "malformed", "unavailable"} ->
         FAILED
    [] OTHER -> PENDING

MentionsGenreOrKnownGenre(message) ==
  LET message_lower == Lower(message)
  IN \/ AnyWord(message_lower,
                <<"genre", "music", "style", "type", "explore">>)
     \/ AnyWord(message_lower, InitialGenres)

\* C9: in INITIAL the decision is a transition to GENRE_EXPLORATION when
\* the message holds genre, music, style, type or explore or names a known
\* genre, and no transition otherwise.
InitialTransitionOnAnyKnownGenre ==
  (tPc = "decided" /\ tPhase = INITIAL) =>
    IF MentionsGenreOrKnownGenre(Text(tMessage))
      THEN tDecision = Advance(GENRE_EXPLORATION)
      ELSE tDecision = Stay(INITIAL)

\* C10: in GENRE_EXPLORATION the decision is a transition to
\* EDUCATIONAL_CLARIFICATION exactly when the context has a non-empty
\* mentioned_genres list (for a context extracted from the message: when the
\* message names a genre); otherwise the phase stays.
GenreExplorationTransitionIffGenres ==
  (tPc = "decided" /\ tPhase = GENRE_EXPLORATION) =>
    /\ tDecision.should_transition
         <=> ("mentioned_genres" \in tContext.keys
              /\ Len(tContext.mentioned_genres) > 0)
    /\ tDecision.new_phase = IF tDecision.should_transition
                               THEN EDUCATIONAL_CLARIFICATION
                               ELSE GENRE_EXPLORATION
    /\ tContext = ExtractContext(Text(tMessage), tPhase) =>
         (tDecision.should_transition
            <=> AnyWord(Lower(Text(tMessage)), ExplorationGenres))

\* a message naming a genre in capitals made GENRE_EXPLORATION advance
GenreExplorationAdvanced ==
  /\ tPc = "decided"
  /\ tPhase = GENRE_EXPLORATION
  /\ tMessage = <<"HIP HOP">>
  /\ tContext.mentioned_genres = <<"hip hop">>
  /\ tDecision = Advance(EDUCATIONAL_CLARIFICATION)

\* the calls whose response_data has been built
Handled ==
  {call \in Frames : call.pc \in {"add_user", "add_assistant", "update_phase"}}

\* C11: a process_message call in EDUCATIONAL_CLARIFICATION decides the
\* transition to CULTURAL_RESEARCH exactly when the context extracted from
\* its message holds a theory concept or the has_educational_goals flag;
\* otherwise the phase stays.
EducationalTransitionIffConcepts ==
  \A call \in Handled :
    call.current_phase = EDUCATIONAL_CLARIFICATION =>
      LET context == CallContext(call)
          clear == \/ context.theory_concepts # <<>>
                   \/ "has_educational_goals" \in context.keys
      IN /\ call.response.phase_transition <=> clear
         /\ call.response.new_phase = IF clear THEN CULTURAL_RESEARCH
                                      ELSE EDUCATIONAL_CLARIFICATION

\* C12: a process_message call in CULTURAL_RESEARCH decides the transition
\* to READY_FOR_GENERATION exactly when the context extracted from its
\* message holds a cultural element or a mentioned genre; otherwise the
\* phase stays.
CulturalTransitionIffElements ==
  \A call \in Handled :
    call.current_phase = CULTURAL_RESEARCH =>
      LET context == CallContext(call)
          explored == \/ context.cultural_elements # <<>>
                      \/ context.mentioned_genres # <<>>
      IN /\ call.response.phase_transition <=> explored
         /\ call.response.new_phase = IF explored THEN READY_FOR_GENERATION
                                      ELSE CULTURAL_RESEARCH

\* C13: once the stored phase is READY_FOR_GENERATION no process_message
\* call changes it or reports a phase transition, whatever the message, a
\* confirmation included.
ReadyForGenerationAbsorbing ==
  [][/\ conversation = READY_FOR_GENERATION
          => conversation' = READY_FOR_GENERATION
     /\ \A call \in Handled' :
          call.current_phase = READY_FOR_GENERATION
            => /\ ~call.response.phase_transition
               /\ call.response.new_phase = READY_FOR_GENERATION
               /\ call.pc # "update_phase"
     /\ (returned'.done /\ returned'.response.phase = READY_FOR_GENERATION)
          => /\ ~returned'.response.phase_transition
             /\ returned'.response.new_phase = READY_FOR_GENERATION]_vars

\* a call answers the confirmation 'yes' of a session that is ready
ConfirmationAnsweredWhenReady ==
  /\ conversation = READY_FOR_GENERATION
  /\ \E call \in Handled :
       /\ call.current_phase = READY_FOR_GENERATION
       /\ call.user_message = <<"yes">>
       /\ CallContext(call).ready_for_generation
       /\ call.pc = "add_assistant"

\* C14: the transition decision is defined for every phase and is the same
\* for the same phase, message and context, whatever the ai_response.
TransitionDecisionDeterministic ==
  tPc = "decided" =>
    /\ tDecision.should_transition \in BOOLEAN
    /\ tDecision.new_phase \in ConversationPhase
    /\ \A ai_response \in AiResponses :
         tDecision = DeterminePhaseTransition(tPhase, Text(tMessage),
                                              ai_response, tContext)

\* a decision was given for the phase ERROR, which no branch names
DecisionGivenForErrorPhase ==
  /\ tPc = "decided"
  /\ tPhase = ERROR
  /\ tMessage = <<"jazz">>
  /\ tDecision = Stay(ERROR)

\* C15: load-or-create is idempotent.  A row that appears has phase
\* INITIAL; the create_conversation of a call leaves an existing row as it
\* is; the second get_conversation of a call, when the store answers, does
\* not end the call and hands it the phase of the row; no call returns the
\* error response when the row exists and the store answers, a call whose
\* create met the row of another call included.
LoadOrCreateIdempotent ==
  [][/\ (conversation = "absent" /\ conversation' # "absent")
          => conversation' = INITIAL
     /\ \A call \in Frames :
          (/\ call.pc = "create"
           /\ calls' = Others(call) (+) SetToBag({[call EXCEPT !.pc = "reget"]}))
            => (conversation # "absent" => conversation' = conversation)
     /\ \A call \in Frames :
          call.pc = "reget" =>
            /\ (conversation # "absent" /\ connection /\ failures' = failures)
                 => calls' # Others(call)
            /\ \A next \in Frames' :
                 (next.pc = "handle"
                  /\ calls' = Others(call) (+) SetToBag({next}))
                   => next.current_phase = conversation
     /\ (returned'.done /\ "error" \in returned'.response.keys)
          => (conversation = "absent" \/ ~connection \/ failures' # failures)]_vars

\* two overlapping calls both found no row and both called
\* create_conversation: one insert succeeded, the other met the row
DuplicateCreateResolved ==
  /\ connection
  /\ failures = 0
  /\ conversation = INITIAL
  /\ \E c1, c2 \in Frames :
       /\ c1.pc = "reget"
       /\ c2.pc = "reget"
       /\ (c1 # c2 \/ CopiesIn(c1, calls) >= 2)

\* C16: on an agent used as constructed (its store never connected), the
\* first process_message call of a session leaves a stored conversation and
\* answers from phase INITIAL, not with the error response.
FirstCallCreatesConversation ==
  (returned.done /\ turns = 1 /\ ~connection) =>
    /\ conversation # "absent"
    /\ returned.response.phase = INITIAL
    /\ "error" \notin returned.response.keys

\* the response_data of a normal turn of `call` whose text is ai_response
NormalTurn(call, response, ai_response) ==
  LET decision ==
        DeterminePhaseTransition(call.current_phase, Text(call.user_message),
                                 ai_response, CallContext(call))
  IN /\ ~response.raised
     /\ "error" \notin response.keys
     /\ "tool_results" \in response.keys
     /\ response.response = ai_response
     /\ response.phase = call.current_phase
     /\ response.phase_transition = decision.should_transition
     /\ response.new_phase = decision.new_phase

\* C17: a failure of the tools of a turn is reported as the error of
\* tool_results and nowhere else: the turn has the text of the model (or
\* its fallback) and the transition decision of a normal turn, goes through
\* both add_message calls and the phase update, and returns response_data.
ToolFailureKeptInsideToolResults ==
  [][/\ \A call \in Frames :
          (/\ call.pc = "handle"
           /\ call.current_phase \in SystemPromptPhases
           /\ tool_orchestrator
           /\ InvokesTools(call.current_phase, CallContext(call)))
            => /\ calls' # Others(call)
               /\ \A next \in Frames' :
                    calls' = Others(call) (+) SetToBag({next})
                      => /\ next.pc = "add_user"
                         /\ next.response.tool_results
                              \in {"error", "synthesized"}
     /\ \A call \in Handled' :
          call.response.tool_results = "error"
            => \E ai_response \in AiResponses :
                 NormalTurn(call, call.response, ai_response)
     /\ (returned'.done /\ returned'.response.tool_results = "error")
          => \E call \in Frames :
               /\ call.pc \in {"add_assistant", "update_phase"}
               /\ call.response = returned'.response
               /\ calls' = Others(call)
               /\ call.pc = "add_assistant"
                    => ~call.response.phase_transition
               /\ call.pc = "update_phase"
                    => conversation'
                         \in {conversation, call.response.new_phase}]_vars

\* a turn whose tools failed returned the reply of the model and moved the
\* session on
TurnCompletedAfterToolFailure ==
  /\ returned.done
  /\ returned.response.tool_results = "error"
  /\ returned.response.response = LlmText
  /\ returned.response.phase_transition
  /\ conversation = returned.response.new_phase
  /\ "error" \notin returned.response.keys


\* the step of `call` from one statement of process_message to the next
Moved(call, pc) == calls' = Others(call) (+) SetToBag({[call EXCEPT !.pc = pc]})

\* the store took the write of the step
Stored == connection /\ failures' = failures

\* C18: when the model fails, the text of the turn is the fallback string
\* of the current phase and the turn is a normal one: the decision is the
\* one computed from the phase, the message and the context, both
\* add_message calls are made (user message, then the fallback text as the
\* assistant message), a decided transition is written, and the response
\* returned has no error field.
LlmFailureGivesFallbackTurn ==
  [][/\ \A call \in Frames :
          (call.pc = "handle" /\ call.current_phase \in SystemPromptPhases)
            => /\ calls' # Others(call)
               /\ \A next \in Frames' :
                    calls' = Others(call) (+) SetToBag({next})
                      => /\ next.pc = "add_user"
                         /\ next.response.response
                              \in {LlmText,
                                   GetFallbackResponse(call.current_phase)}
     /\ \A call \in Handled' :
          call.response.response # LlmText
            => NormalTurn(call, call.response,
                          GetFallbackResponse(call.current_phase))
     /\ \A call \in Frames :
          (call.pc = "add_user" /\ call.response.response # LlmText
           /\ Moved(call, "add_assistant") /\ Stored)
            => /\ messages' = Append(messages, USER)
               /\ appended' = [role |-> USER, content |-> call.user_message]
     /\ \A call \in Frames :
          (/\ call.pc = "add_assistant" /\ call.response.response # LlmText
           /\ Moved(call, "update_phase") \/ calls' = Others(call)
           /\ Stored)
            => /\ messages' = Append(messages, ASSISTANT)
               /\ appended'
                    = [role |-> ASSISTANT,
                       content |-> GetFallbackResponse(call.current_phase)]
               /\ call.response.phase_transition <=> ~returned'.done
     /\ \A call \in Frames :
          (/\ call.pc = "update_phase" /\ call.response.response # LlmText
           /\ calls' = Others(call) /\ Stored)
            => conversation' = call.response.new_phase
     /\ (returned'.done /\ returned'.response.response \notin {LlmText, ApologyText})
          => /\ "error" \notin returned'.response.keys
             /\ \E call \in Frames :
                  /\ call.pc \in {"add_assistant", "update_phase"}
                  /\ call.response = returned'.response
                  /\ calls' = Others(call)]_vars

\* a turn whose model failed returned the fallback of its phase, stored
\* both messages and moved the session on
FallbackTurnStored ==
  /\ returned.done
  /\ returned.response.response = GetFallbackResponse(returned.response.phase)
  /\ "error" \notin returned.response.keys
  /\ returned.response.phase_transition
  /\ conversation = returned.response.new_phase
  /\ Len(messages) >= 2
  /\ SubSeq(messages, Len(messages) - 1, Len(messages)) = <<USER, ASSISTANT>>


\* C19: a call that returns without the error field leaves the stored
\* phase at the new_phase of its response when phase_transition is true
\* and at the phase it started from when it is false, and the stored phase
\* of a session changes only in the update of a call that decided a
\* transition.
StoredPhaseFollowsResponse ==
  [][/\ (returned'.done /\ "error" \notin returned'.response.keys)
          => conversation' = IF returned'.response.phase_transition
                               THEN returned'.response.new_phase
                               ELSE returned'.response.phase
     /\ (conversation # "absent" /\ conversation' # conversation)
          => \E call \in Frames :
               /\ call.pc = "update_phase"
               /\ call.response.phase_transition
               /\ calls' = Others(call)
               /\ conversation' = call.response.new_phase]_vars


\* C20: the messages of a session only grow. A call that returns without
\* the error field has gone through both add_message calls, the first
\* appending its user message and the second its assistant response after
\* everything stored before, and no step of any call changes or removes a
\* stored message.
MessagesAppendOnly ==
  [][/\ Len(messages') >= Len(messages)
     /\ SubSeq(messages', 1, Len(messages)) = messages
     /\ \A call \in Frames :
          (call.pc = "add_user" /\ Moved(call, "add_assistant"))
            => /\ messages' = Append(messages, USER)
               /\ appended' = [role |-> USER, content |-> call.user_message]
     /\ \A call \in Frames :
          (/\ call.pc = "add_assistant"
           /\ Moved(call, "update_phase") \/ calls' = Others(call))
            => /\ messages' = Append(messages, ASSISTANT)
               /\ appended' = [role |-> ASSISTANT,
                               content |-> call.response.response]
     /\ messages' # messages
          => \E call \in Frames :
               \/ call.pc = "add_user" /\ Moved(call, "add_assistant")
               \/ /\ call.pc = "add_assistant"
                  /\ Moved(call, "update_phase") \/ calls' = Others(call)
     /\ (returned'.done /\ "error" \notin returned'.response.keys)
          => \E call \in Frames :
               /\ call.pc \in {"add_assistant", "update_phase"}
               /\ calls' = Others(call)]_vars


\* C21: the result of execute_web_search has the status of what the search
\* did: COMPLETED for a response without an error, FAILED with the error
\* of the response as error_message for a response with one, TIMEOUT with
\* the timed-out message when tool_timeout passed, and FAILED with an
\* error_message for a capability that raised, whatever the exception.
StatusFollowsSearchOutcome ==
  \A t \in TaskIds :
    tasks[t].pc = "done" =>
      /\ tasks[t].outcome = "ok" => tasks[t].result.status = COMPLETED
      /\ tasks[t].outcome = "error_field" =>
           /\ tasks[t].result.status = FAILED
           /\ tasks[t].result.error_message = "error_field"
      /\ tasks[t].outcome = "timeout" =>
           /\ tasks[t].result.status = TIMEOUT
           /\ tasks[t].result.error_message = "timed_out"
      /\ tasks[t].outcome \in {"raises", "raises_blank"} =>
           /\ tasks[t].result.status = FAILED
           /\ tasks[t].result.error_message # "none"


\* the places of the input where a COMPLETED result lists an entry with a
\* url: <<i, j>> is the j-th entry of the i-th result
UrlPlaces ==
  {p \in (1..MaxResults) \X (1..MaxEntries) :
     /\ p[1] <= Len(pResults)
     /\ pResults[p[1]].status = COMPLETED
     /\ p[2] <= Len(pResults[p[1]].metadata.results)
     /\ pResults[p[1]].metadata.results[p[2]].url # "none"}

EntryAt(p) == pResults[p[1]].metadata.results[p[2]]

Earlier(p, q) == p[1] < q[1] \/ (p[1] = q[1] /\ p[2] < q[2])

\* the first place of the input where the url occurs
FirstPlace(url) ==
  CHOOSE p \in UrlPlaces :
    /\ EntryAt(p).url = url
    /\ \A q \in UrlPlaces : EntryAt(q).url = url => ~Earlier(q, p)

\* C22: results of process_search_results holds each url listed by a
\* COMPLETED result once, as the entry of its first occurrence and in the
\* order of the first occurrences, and total_results is its length.
EachUrlOnceInFirstOrder ==
  pPc = "done" =>
    LET out == pSynthesis.results
    IN /\ {out[a].url : a \in 1..Len(out)}
            = {EntryAt(p).url : p \in UrlPlaces}
       /\ \A a, b \in 1..Len(out) : a # b => out[a].url # out[b].url
       /\ \A a \in 1..Len(out) : out[a] = EntryAt(FirstPlace(out[a].url))
       /\ \A a, b \in 1..Len(out) :
            a < b => Earlier(FirstPlace(out[a].url), FirstPlace(out[b].url))
       /\ pSynthesis.total_results = Len(out)

\* two COMPLETED results listed the same url and the entry of the first
\* was the one returned
SharedUrlReturnedOnce ==
  /\ pPc = "done"
  /\ Len(pResults) = 2
  /\ \A i \in 1..2 :
       /\ pResults[i].status = COMPLETED
       /\ Len(pResults[i].metadata.results) = 1
       /\ pResults[i].metadata.results[1].url = "u1"
  /\ pResults[1].metadata.results[1] # pResults[2].metadata.results[1]
  /\ pSynthesis.results = pResults[1].metadata.results
  /\ pSynthesis.total_results = 1


\* the places of the input whose result is COMPLETED, or is not
PlacesWhere(completed) ==
  {i \in 1..Len(pResults) : (pResults[i].status = COMPLETED) = completed}

\* the error messages that are not null, of the results that are not
\* COMPLETED, in the order of the input
RECURSIVE NonNullErrors(_)
NonNullErrors(results) ==
  IF results = <<>> THEN <<>>
  ELSE (IF Head(results).status # COMPLETED
           /\ Head(results).error_message # "none"
          THEN <<Head(results).error_message>> ELSE <<>>)
       \o NonNullErrors(Tail(results))

\* C23: process_search_results counts the COMPLETED results as
\* successful_searches and all others as failed_searches, takes entries
\* from COMPLETED results only, and lists in errors the error_message of
\* each result that is not COMPLETED and has one, in input order.
ResultsPartitionedByStatus ==
  pPc = "done" =>
    /\ pSynthesis.successful_searches = Cardinality(PlacesWhere(TRUE))
    /\ pSynthesis.failed_searches = Cardinality(PlacesWhere(FALSE))
    /\ pSynthesis.successful_searches + pSynthesis.failed_searches
         = Len(pResults)
    /\ \A a \in 1..Len(pSynthesis.results) :
         \E p \in UrlPlaces : pSynthesis.results[a] = EntryAt(p)
    /\ pSynthesis.errors = NonNullErrors(pResults)


\* C24: every response process_message returns, the error response
\* included, has the fields phase, phase_transition, new_phase, context
\* and tool_results; phase is the phase the call loaded, new_phase its
\* immediate successor when phase_transition is true and phase itself
\* when it is false.
ResponseCarriesAllFields ==
  [][returned'.done
       => /\ {"phase", "phase_transition", "new_phase", "context",
              "tool_results"} \subseteq returned'.response.keys
          /\ \E call \in Frames :
               /\ calls' = Others(call)
               /\ returned'.response.phase = call.current_phase
          /\ IF returned'.response.phase_transition
               THEN PhaseIndex(returned'.response.new_phase)
                      = PhaseIndex(returned'.response.phase) + 1
               ELSE returned'.response.new_phase
                      = returned'.response.phase]_vars


\* C25: when a process_message call for a stored session takes the error
\* path, the stored phase of the session becomes ERROR.
ErrorPathStoresError ==
  [][(/\ returned'.done
      /\ "error" \in returned'.response.keys
      /\ conversation # "absent")
       => conversation' = ERROR]_vars

\* the stored phases from which the agent cannot take a turn
ClosedPhases == {ERROR, GENERATION_COMPLETE}

\* C28: a process_message call on a session whose stored phase is ERROR
\* or GENERATION_COMPLETE returns the apology with the error field; none
\* of its steps appends a message, runs the tools of a phase or changes
\* the stored phase.
ClosedPhaseGivesErrorOnly ==
  [][(conversation \in ClosedPhases /\ (turns' # turns \/ calls' # calls))
       => /\ conversation' = conversation
          /\ messages' = messages
          /\ appended' = NoRow
          /\ returned'.done
               => /\ "error" \in returned'.response.keys
                  /\ returned'.response.response = ApologyText
                  /\ returned'.response.tool_results = "empty"
          /\ \A call \in Frames' :
               /\ call.pc \in {"create", "reget", "handle"}
               /\ call.pc = "handle"
                    => /\ call.current_phase = conversation
                       /\ ~InvokesTools(call.current_phase,
                                        CallContext(call))]_vars

\* a session with stored turns, put in phase ERROR, answered its next
\* message with the error response
ClosedSessionRefusedTurn ==
  /\ returned.done
  /\ "error" \in returned.response.keys
  /\ conversation = ERROR
  /\ connection
  /\ failures = 0
  /\ messages = <<USER, ASSISTANT>>


\* C26: the history of the prompt is the last messages of the stored
\* history, six of them or all when there are fewer, oldest first,
\* however long the stored history is.
PromptHoldsMostRecentMessages ==
  hPc = "done" =>
    LET n == Len(hStored)
        k == IF n < HistoryWindow THEN n ELSE HistoryWindow
    IN hPrompt = SubSeq(hStored, n - k + 1, n)


\* the phase and the context of the call warrant tools: GENRE_EXPLORATION
\* with genres mentioned, or CULTURAL_RESEARCH with cultural elements or
\* genres
Warranted(call) ==
  LET context == CallContext(call)
  IN \/ /\ call.current_phase = GENRE_EXPLORATION
        /\ context.mentioned_genres # <<>>
     \/ /\ call.current_phase = CULTURAL_RESEARCH
        /\ context.cultural_elements # <<>>
             \/ context.mentioned_genres # <<>>

\* C27: a turn has tool results only when tools are enabled and its phase
\* and context warrant them; in every other phase or with empty lists no
\* batch method of the orchestrator runs and tool_results is empty.
ToolsOnlyWhenWarranted ==
  \A call \in Handled :
    ~(tool_orchestrator /\ Warranted(call))
      => call.response.tool_results = "empty"


\* C29: an operation of the store that holds the lock releases it in the
\* end, get_conversation_summary included, so that no later operation
\* waits for the lock forever.
LockEventuallyReleased ==
  \A i \in Ops : (lock = i) ~> (lock # i)


\* C30: the stored history of a session alternates user, assistant, each
\* assistant message directly after the user message of its turn, however
\* overlapping process_message calls interleave. Stated for the runs in
\* which every write to the store was taken.
HistoryAlternates ==
  failures = 0
    => \A k \in 1..Len(messages) :
         messages[k] = IF k % 2 = 1 THEN USER ELSE ASSISTANT

=============================================================================
